---- MODULE Spec2Model ----
(***************************************************************************)
(* usePopcorn: the search controller (useMovies), the application shell    *)
(* (App), the movie-detail loader (MovieDetails) and the persisted         *)
(* watched collection, as one state machine.  Every action is one task of  *)
(* the browser's event loop: a user event together with the renders and    *)
(* effects React runs for it, or the continuation of one awaited promise.  *)
(***************************************************************************)
EXTENDS Integers, Sequences, FiniteSets, TLC

\* ----------------------------------------------------------------- bounds
MaxQueryLen == 4        \* longest query the user types
MaxDetailInFlight == 2  \* detail fetches whose continuation has not run yet
MaxWatched == 2         \* entries in the watched collection
MaxStored == 3          \* entries in the collection a page load finds stored

\* ------------------------------------------------------ program constants
MinQueryLength == 3     \* useMovies.js:52  if (query.length < 3)
MaxRating == 10         \* App.js:310  <StarRating maxRating={10} .../>

NULL == "null"          \* App.js:15   useState(null)

\* ------------------------------------------------------------ input sets
RECURSIVE QueriesUpTo(_)
QueriesUpTo(n) ==
    IF n = 0 THEN {""}
    ELSE LET p == QueriesUpTo(n - 1) IN p \cup {s \o "x" : s \in {t \in p : Len(t) = n - 1}}

Queries == QueriesUpTo(MaxQueryLen)

Ids == {"tt1", "tt2"}

Summary(id) == [imdbID |-> id, Title |-> "Title " \o id]

\* Payloads the search endpoint answers with (spec section 6).
SearchPayloads ==
    { [Response |-> "False", Search |-> << >>],
      [Response |-> "True",  Search |-> << Summary("tt1"), Summary("tt2") >>] }

\* ---------------------------------------------------------------- errors
AbortError == [name |-> "AbortError", message |-> "The user aborted a request."]
TypeError == [name |-> "TypeError", message |-> "Failed to fetch"]
SyntaxError == [name |-> "SyntaxError", message |-> "Unexpected token < in JSON at position 0"]
Rejections == {TypeError, SyntaxError}

\* What an awaited promise rejects with, abort apart: await fetch when the
\* network fails, await res.json() when the body cannot be read or is not
\* JSON.
RejectionsAt(phase) == IF phase = "fetch" THEN {TypeError} ELSE {TypeError, SyntaxError}
Error(msg) == [name |-> "Error", message |-> msg]

SearchTransportMsg == "Something went wrong while fetching movies"
NotFoundMsg == "Movie not found"

DetailTransportMsg == "Something went wrong while fetching movie details"

\* ------------------------------------------------------- JavaScript values
\* A JavaScript number with at most one decimal, counted in tenths; NaN; and
\* the null that JSON writes for NaN.
Num(t) == [kind |-> "number", tenths |-> t]
NaN == [kind |-> "NaN", tenths |-> 0]
JNull == [kind |-> "null", tenths |-> 0]

DigitChars == << "0", "1", "2", "3", "4", "5", "6", "7", "8", "9" >>
IsDigit(c) == \E d \in 1..10 : DigitChars[d] = c
DigitVal(c) == (CHOOSE d \in 1..10 : DigitChars[d] = c) - 1

RECURSIVE DigitsVal(_)
DigitsVal(s) == IF s = << >> THEN 0 ELSE 10 * DigitsVal(SubSeq(s, 1, Len(s) - 1)) + DigitVal(s[Len(s)])

AllDigits(s) == \A i \in 1..Len(s) : IsDigit(s[i])

\* String.prototype.split(" ").at(0): the text before the first space.
SplitAt0(s) ==
    IF \E i \in 1..Len(s) : s[i] = " "
    THEN SubSeq(s, 1, (CHOOSE i \in 1..Len(s) : s[i] = " " /\ \A j \in 1..(i - 1) : s[j] # " ") - 1)
    ELSE s

\* Unary plus on a string: "" is 0, a decimal literal is its value, anything
\* else is NaN.  Literals of the payloads carry at most one decimal.
ToNumber(s) ==
    IF s = << >> THEN Num(0)
    ELSE IF AllDigits(s) THEN Num(10 * DigitsVal(s))
    ELSE IF /\ Len(s) >= 2
            /\ \E i \in 1..Len(s) : /\ s[i] = "."
                                    /\ i >= Len(s) - 1
                                    /\ AllDigits(SubSeq(s, 1, i - 1))
                                    /\ AllDigits(SubSeq(s, i + 1, Len(s)))
         THEN LET i == CHOOSE k \in 1..Len(s) : s[k] = "." IN
              Num(10 * DigitsVal(SubSeq(s, 1, i - 1)) + DigitsVal(SubSeq(s, i + 1, Len(s))))
    ELSE NaN

\* Records the detail endpoint answers with (spec sections 3 and 6).
DetailPayload(id) ==
    IF id = "tt1"
    THEN [present |-> TRUE, Response |-> "True", imdbID |-> id, Title |-> "Title " \o id,
          Year |-> "1979", Poster |-> "p1.jpg",
          Runtime |-> << "1", "1", "7", " ", "m", "i", "n" >>,
          imdbRating |-> << "8", ".", "5" >>]
    ELSE [present |-> TRUE, Response |-> "True", imdbID |-> id, Title |-> "Title " \o id,
          Year |-> "1986", Poster |-> "p2.jpg",
          Runtime |-> << "9", "0", " ", "m", "i", "n" >>,
          imdbRating |-> << "7" >>]

DetailNotFound ==
    [present |-> TRUE, Response |-> "False", imdbID |-> "", Title |-> "", Year |-> "",
     Poster |-> "", Runtime |-> << >>, imdbRating |-> << >>]

\* useState({}): an object without any of the API's fields.
EmptyMovie ==
    [present |-> FALSE, Response |-> "", imdbID |-> "", Title |-> "", Year |-> "",
     Poster |-> "", Runtime |-> << >>, imdbRating |-> << >>]

DetailPayloads(id) == {DetailPayload(id), DetailNotFound}
AllDetailPayloads == UNION {DetailPayloads(id) : id \in Ids}

\* The ratings StarRating hands to onSetRating.
Ratings == {MaxRating}

VARIABLES
    query,          \* App: useState("")
    selectedId,     \* App: useState(null)
    isOpen,         \* Box around MovieDetails / the watched list: useState(true)
    watched,        \* App: useLocalStoragestate([], "watched")
    store,          \* the durable store entry "watched"
    movies,         \* useMovies: useState([])
    isLoading,      \* useMovies: useState(false)
    error,          \* useMovies: useState("")
    searchFetches,  \* fetchMovies calls whose continuation is still to run
    movie,          \* MovieDetails: useState({})
    dIsLoading,     \* MovieDetails: useState(false)
    dError,         \* MovieDetails: useState("")
    userRating,     \* MovieDetails: useState(0)
    detailFetches,  \* getMovieDetails calls whose continuation is still to run
    focused,        \* document.activeElement === inputEl.current
    listeners,      \* the keydown listeners registered on document
    documentTitle,  \* document.title
    ev              \* the task the event loop ran last and what it found
                    \* (a movie selected, an error shown), for a query
                    \* change, a cancellation, a keydown, an add, a delete
                    \* and a restart; NoEvent after any other task

appVars == << query, selectedId, isOpen, watched, store >>
searchVars == << movies, isLoading, error, searchFetches >>
detailVars == << movie, dIsLoading, dError, userRating, detailFetches >>
domVars == << focused, listeners, documentTitle >>
vars == << appVars, searchVars, detailVars, domVars, ev >>

NoEvent == [op |-> "", q |-> "", sel |-> FALSE, err |-> FALSE]

RemoveAt(s, i) == SubSeq(s, 1, i - 1) \o SubSeq(s, i + 1, Len(s))

\* ------------------------------------------------------------- useMovies

\* Mutant: the guard lets two-character queries through.
ShortQueryBelowTwo(q) == Len(q) < MinQueryLength - 1

\* query.length < 3
ShortQuery(q) == Len(q) < MinQueryLength

\* The effect's cleanup: controller.abort() of the effect run for query q.
AbortController(fs, q) ==
    [i \in 1..Len(fs) |-> IF fs[i].q = q THEN [fs[i] EXCEPT !.aborted = TRUE] ELSE fs[i]]

\* Mutant: the effect returns no cleanup.
CleanupNone(fs, q) == fs

\* Cleanup of the previous effect run; only a run that got past the length
\* guard returned a cleanup function.
Cleanup(fs, q) == IF ShortQuery(q) THEN fs ELSE AbortController(fs, q)

\* Mutant: the catch block reports every error, the AbortError too.
CatchErrorAny(err, cur) == err.message

\* catch (err): an AbortError is not reported.
CatchError(err, cur) == IF err.name # "AbortError" THEN err.message ELSE cur

\* Mutant: the catch block empties the list.
ThrownClearsMovies(err, st) ==
    [movies |-> << >>, error |-> CatchError(err, st.error), isLoading |-> FALSE]

\* Mutant: no finally block, the loading flag is left as it is.
ThrownSkipsFinally(err, st) ==
    [movies |-> st.movies, error |-> CatchError(err, st.error), isLoading |-> TRUE]

\* catch and finally of fetchMovies; st is [movies, error].
Thrown(err, st) ==
    [movies |-> st.movies, error |-> CatchError(err, st.error), isLoading |-> FALSE]

\* if (!res.ok) throw ...; otherwise fetchMovies goes on to await res.json().
AfterResponse(ok, st) ==
    IF ~ok THEN Thrown(Error(SearchTransportMsg), st)
    ELSE [movies |-> st.movies, error |-> st.error, isLoading |-> TRUE]

\* Mutant: the payload's Response field is not looked at.
AfterJsonUnchecked(data, st) == [movies |-> data.Search, error |-> "", isLoading |-> FALSE]

\* if (data.Response === "False") throw ...; setMovies; setError(""); finally.
AfterJson(data, st) ==
    IF data.Response = "False" THEN Thrown(Error(NotFoundMsg), st)
    ELSE [movies |-> data.Search, error |-> "", isLoading |-> FALSE]

\* Mutant: fetchMovies starts without setError("").
FetchMoviesStartKeepsError(st) == [movies |-> st.movies, error |-> st.error, isLoading |-> TRUE]

\* The start of fetchMovies: setIsLoading(true); setError("").
\* st is [movies, error, isLoading].
FetchMoviesStart(st) == [movies |-> st.movies, error |-> "", isLoading |-> TRUE]

\* Mutant: the branch of the length guard leaves the error.
ShortQueryReturnKeepsError(st) ==
    [movies |-> << >>, error |-> st.error, isLoading |-> st.isLoading]

\* The branch of the length guard: setMovies([]); setError(""); return.
ShortQueryReturn(st) == [movies |-> << >>, error |-> "", isLoading |-> st.isLoading]

\* What one run of the effect writes at once, for query q.
UseMoviesEffect(q, st) == IF ShortQuery(q) THEN ShortQueryReturn(st) ELSE FetchMoviesStart(st)

\* callback?.() at the top of the effect, with App's handleCloseMovie:
\* the selected identifier after the effect ran for query q.
HandleCloseMovie == NULL
\* Mutant: the callback is called after the length guard, as the commented
\* out call of useMovies.js:58-60 was.
CallbackAfterGuard(q, sel) == IF Len(q) < MinQueryLength THEN sel ELSE HandleCloseMovie

UseMoviesCallback(q, sel) == HandleCloseMovie

\* ------------------------------------------------------------------- App

HandleSelectMovie(id, sel) == IF id = sel THEN NULL ELSE id

\* Box: {isOpen && children}.  MovieDetails is a child of the second Box and
\* is rendered when selectedId is set.  (The first Box, around the movie
\* list, holds no state of its own children; its toggle is not modelled.)
Mounted(sel, open) == sel # NULL /\ open

\* Box: onClick={() => setIsOpen((open) => !open)}
BoxToggle(open) == ~open

\* Mutant: an entry whose imdbID is already present is rejected.
HandleAddWatchedOnce(w, m) ==
    IF \E i \in 1..Len(w) : w[i].imdbID = m.imdbID THEN w ELSE w \o << m >>

HandleAddWatched(w, m) == w \o << m >>

\* Mutant: the entry is removed by moving the last entry into its place.
HandleDeleteWatchedSwap(w, id) ==
    IF \E i \in 1..Len(w) : w[i].imdbID = id
    THEN LET i == CHOOSE k \in 1..Len(w) : w[k].imdbID = id IN
         SubSeq([w EXCEPT ![i] = w[Len(w)]], 1, Len(w) - 1)
    ELSE w

HandleDeleteWatched(w, id) == SelectSeq(w, LAMBDA m : m.imdbID # id)

\* ---------------------------------------------------------------- useKey
\* One useKey call of one component: the key it was given.  The listeners
\* variable counts, for each call, the callbacks of that call which are
\* registered on document.
KeyListener(owner, key) == [owner |-> owner, key |-> key]

SearchEnter == KeyListener("Search", "Enter")
DetailsEscape == KeyListener("MovieDetails", "Escape")
KeyListeners == {SearchEnter, DetailsEscape}

\* The values of e.code of the keys the user presses: for each useKey call
\* its own key and a key that is not its own.
Codes == {"Enter", "Escape"}

AddEventListener(ls, l) == [ls EXCEPT ![l] = @ + 1]

\* Removing a callback that is not registered does nothing.
RemoveEventListener(ls, l) == [ls EXCEPT ![l] = IF @ > 0 THEN @ - 1 ELSE 0]

\* The effect of useKey: document.addEventListener("keydown", callback).
UseKeyEffect(ls, l) == AddEventListener(ls, l)

\* Mutant: the effect returns no cleanup.
UseKeyCleanupNone(ls, l) == ls

\* The cleanup: document.removeEventListener("keydown", callback).
UseKeyCleanup(ls, l) == RemoveEventListener(ls, l)

\* A render with a changed action or key: the cleanup of the previous run,
\* then the effect.
UseKeyRerun(ls, l) == UseKeyEffect(UseKeyCleanup(ls, l), l)

\* Mutant: the callback does not look at e.code.
UseKeyCallbackAny(l, code) == TRUE

\* if (e.code === key) action()
UseKeyCallback(l, code) == code = l.key

\* How many times a keydown with this code calls the action of useKey call l.
Calls(ls, l, code) == IF UseKeyCallback(l, code) THEN ls[l] ELSE 0

\* Search.handleEnter does something only when the input is not focused.
HandleEnterActs(isFocused) == ~isFocused

\* The keydown listeners after MovieDetails was mounted or unmounted:
\* MovieDetails gets the memoized handleCloseMovie, so its effect runs on
\* mount and its cleanup on unmount only.
DetailsKeys(ls, wasMounted, isMounted) ==
    IF ~wasMounted /\ isMounted THEN UseKeyEffect(ls, DetailsEscape)
    ELSE IF wasMounted /\ ~isMounted THEN UseKeyCleanup(ls, DetailsEscape)
    ELSE ls

\* The keydown listeners after a render of App.  Search declares handleEnter
\* anew in every render, so its useKey effect runs again.
RenderKeys(ls, wasMounted, isMounted) ==
    DetailsKeys(UseKeyRerun(ls, SearchEnter), wasMounted, isMounted)

\* ------------------------------------------------------------ document.title
DefaultTitle == "usePopcorn"

\* The title the page is served with.
InitialTitle == "usePopcorn"

\* The effect on [title]: if (!title) return; document.title = ...
TitleEffect(title, cur) == IF title = "" THEN cur ELSE "Movie | " \o title

\* Mutant: the cleanup does not restore the title.
TitleCleanupKeeps(title, cur) == cur

\* The cleanup the effect returned, if it returned one.
TitleCleanup(title, cur) == IF title = "" THEN cur ELSE DefaultTitle

\* MovieDetails rendered with title t2 after title t1.
TitleRerun(t1, t2, cur) == IF t1 = t2 THEN cur ELSE TitleEffect(t2, TitleCleanup(t1, cur))

\* ---------------------------------------------------- useLocalStoragestate
\* JSON.stringify writes NaN as null; every other value of an entry is
\* written and read back as it is.
JsonNumber(n) == IF n.kind = "NaN" THEN JNull ELSE n

JSONStringify(w) ==
    [i \in 1..Len(w) |->
        [w[i] EXCEPT !.runtime = JsonNumber(@), !.imdbRating = JsonNumber(@)]]

JSONParse(text) == text

\* ------------------------------------------------------------ WatchedSummary
\* The value tenths / over, in tenths: what a sum of cur / arr.length is.
Quotient(t, n) == [kind |-> "number", tenths |-> t, over |-> n]
NaNQuotient == [kind |-> "NaN", tenths |-> 0, over |-> 1]
Zero == Quotient(0, 1)

\* The reducer (acc, cur, i, arr) => acc + cur / arr.length, from element i
\* on.  NaN is contagious, and the null JSON wrote for a NaN counts as 0.
RECURSIVE AverageReduce(_, _, _)
AverageReduce(arr, i, acc) ==
    IF i > Len(arr) THEN acc
    ELSE AverageReduce(arr, i + 1,
            IF acc.kind = "NaN" \/ arr[i].kind = "NaN" THEN NaNQuotient
            ELSE Quotient(acc.tenths + (IF arr[i].kind = "null" THEN 0 ELSE arr[i].tenths),
                          Len(arr)))

\* Mutant: the sum divided by the length, 0 / 0 for the empty array.
AverageOfSum(arr) ==
    IF Len(arr) = 0 THEN NaNQuotient ELSE AverageReduce(arr, 1, Zero)

\* average = (arr) => arr.reduce(..., 0): the initial value 0 is the result
\* for the empty array.
Average(arr) == AverageReduce(arr, 1, Zero)

AvgImdbRating(w) == Average([i \in 1..Len(w) |-> w[i].imdbRating])
AvgUserRating(w) == Average([i \in 1..Len(w) |-> Num(10 * w[i].userRating)])
AvgRuntime(w) == Average([i \in 1..Len(w) |-> w[i].runtime])

\* -------------------------------------------------------------- MovieDetails

\* Mutant: the rating of a watched movie is never found.
WatchedUserRatingNone(w, id) == 0

WatchedUserRating(w, id) ==
    IF \E i \in 1..Len(w) : w[i].imdbID = id
    THEN w[CHOOSE i \in 1..Len(w) :
              /\ w[i].imdbID = id
              /\ \A j \in (i + 1)..Len(w) : w[j].imdbID # id].userRating
    ELSE 0

\* Mutant: the unit is not split off before the conversion.
RuntimeMinutesUnsplit(runtime) == ToNumber(runtime)

\* +runtime.split(" ").at(0)
RuntimeMinutes(runtime) == ToNumber(SplitAt0(runtime))

\* newWatchedMovie of handleAdd.  countRatingDecision, the number of renders
\* since the first rating, is a field no handler reads; it is left out.
NewWatchedMovie(sel, mv, rating) ==
    [imdbID |-> sel, title |-> mv.Title, year |-> mv.Year, poster |-> mv.Poster,
     runtime |-> RuntimeMinutes(mv.Runtime), imdbRating |-> ToNumber(mv.imdbRating),
     userRating |-> rating]

\* The part of MovieDetails rendered when !isLoading && !error.
DetailsShown == Mounted(selectedId, isOpen) /\ ~dIsLoading /\ dError = ""

DThrown(err, st) == [movie |-> st.movie, error |-> err.message, isLoading |-> FALSE]

DAfterResponse(ok, st) ==
    IF ~ok THEN DThrown(Error(DetailTransportMsg), st)
    ELSE [movie |-> st.movie, error |-> st.error, isLoading |-> TRUE]

DAfterJson(data, st) ==
    IF data.Response = "False" THEN DThrown(Error(NotFoundMsg), st)
    ELSE [movie |-> data, error |-> "", isLoading |-> FALSE]

\* The getMovieDetails calls in flight, counted by kind: the identifier asked
\* for, whether the component that made the call has been unmounted since
\* (its state setters do nothing), and the await the call is suspended at.
\* What an orphaned call asked for makes no difference to anything, so
\* orphans of one phase are one kind.
DetailFetchKinds ==
    [id : Ids, orphan : {FALSE}, phase : {"fetch", "json"}]
        \cup [id : {""}, orphan : {TRUE}, phase : {"fetch", "json"}]

RECURSIVE SumOver(_, _)
SumOver(f, S) == IF S = {} THEN 0 ELSE LET k == CHOOSE x \in S : TRUE IN f[k] + SumOver(f, S \ {k})

\* The number of calls in flight: the counts of the kinds, added up.
InFlight(fs) ==
    LET n(id, orphan) == fs[[id |-> id, orphan |-> orphan, phase |-> "fetch"]]
                            + fs[[id |-> id, orphan |-> orphan, phase |-> "json"]]
    IN  n("tt1", FALSE) + n("tt2", FALSE) + n("", TRUE)

Issue(fs, k) == [fs EXCEPT ![k] = @ + 1]
Settle(fs, k) == [fs EXCEPT ![k] = @ - 1]

Orphan(fs) ==
    [k \in DetailFetchKinds |->
        IF k.orphan THEN SumOver(fs, {j \in DetailFetchKinds : j.phase = k.phase}) ELSE 0]

\* What a render does to MovieDetails when selectedId goes from old to new
\* and the Box from was to now: MovieDetails is unmounted, mounted afresh,
\* or kept with its effect run again.
RenderDetails(old, new, was, now) ==
    LET wasMounted == Mounted(old, was)
        isMounted == Mounted(new, now)
    IN  /\ documentTitle' =
              IF wasMounted /\ ~isMounted THEN TitleCleanup(movie.Title, documentTitle)
              ELSE documentTitle
        /\ IF wasMounted /\ ~isMounted
           THEN /\ movie' = EmptyMovie
                /\ dIsLoading' = FALSE
                /\ dError' = ""
                /\ userRating' = 0
                /\ detailFetches' = Orphan(detailFetches)
           ELSE IF isMounted /\ (~wasMounted \/ new # old)
           THEN /\ movie' = IF wasMounted THEN movie ELSE EmptyMovie
                /\ userRating' = IF wasMounted THEN userRating ELSE 0
                /\ dIsLoading' = TRUE
                /\ dError' = ""
                /\ detailFetches' =
                      Issue(detailFetches, [id |-> new, orphan |-> FALSE, phase |-> "fetch"])
           ELSE UNCHANGED detailVars

\* setSelectedId(new) and the render that follows.
SetSelectedId(old, new) ==
    /\ selectedId' = new
    /\ RenderDetails(old, new, isOpen, isOpen)

\* ------------------------------------------------------------------ actions

\* controller.abort() rejects the awaited promise at once, and the rejection's
\* continuation is a microtask: it runs when the task that aborted ends,
\* before the event loop takes any other task.
MicrotaskPending == \E i \in 1..Len(searchFetches) : searchFetches[i].aborted

InitialListeners == UseKeyEffect([l \in KeyListeners |-> 0], SearchEnter)

Init ==
    /\ query = ""
    /\ selectedId = NULL
    /\ isOpen = TRUE
    /\ watched = << >>
    /\ store = JSONStringify(<< >>)
    /\ movies = << >>
    /\ isLoading = FALSE
    /\ error = ""
    /\ searchFetches = << >>
    /\ movie = EmptyMovie
    /\ dIsLoading = FALSE
    /\ dError = ""
    /\ userRating = 0
    /\ detailFetches = [k \in DetailFetchKinds |-> 0]
    /\ focused = FALSE
    /\ listeners = InitialListeners
    /\ documentTitle = InitialTitle
    /\ ev = [NoEvent EXCEPT !.op = "Mount"]

Commit(r) ==
    /\ movies' = r.movies
    /\ error' = r.error
    /\ isLoading' = r.isLoading

St == [movies |-> movies, error |-> error]

\* setQuery(q) with a new value: App renders and the effect of useMovies runs
\* again, its cleanup first.
SetQuery(q) ==
    /\ query' = q
    /\ SetSelectedId(selectedId, UseMoviesCallback(q, selectedId))
    /\ Commit(UseMoviesEffect(q, [movies |-> movies, error |-> error, isLoading |-> isLoading]))
    /\ LET fs == Cleanup(searchFetches, query) IN
        searchFetches' =
            IF ShortQuery(q) THEN fs
            ELSE Append(fs, [q |-> q, aborted |-> FALSE, phase |-> "fetch"])
    /\ listeners' = RenderKeys(listeners, Mounted(selectedId, isOpen), Mounted(selectedId', isOpen))

\* A click into the search input.
FocusInput ==
    /\ ~MicrotaskPending
    /\ ~focused
    /\ focused' = TRUE
    /\ ev' = NoEvent
    /\ UNCHANGED << appVars, searchVars, detailVars, listeners, documentTitle >>

\* Search.onChange: the user edits the text of the focused input.
QueryChange(q) ==
    /\ ~MicrotaskPending
    /\ focused
    /\ q # query
    /\ SetQuery(q)
    /\ ev' = [NoEvent EXCEPT !.op = "QueryChange", !.sel = selectedId # NULL, !.err = error # ""]
    /\ UNCHANGED << isOpen, watched, store, focused >>

\* await fetch(...) resolves with a response.
SearchRespond(i, ok) ==
    /\ ~MicrotaskPending
    /\ i \in 1..Len(searchFetches)
    /\ searchFetches[i].phase = "fetch"
    /\ ~searchFetches[i].aborted
    /\ IF ok
       THEN /\ searchFetches' = [searchFetches EXCEPT ![i].phase = "json"]
            /\ UNCHANGED << movies, error, isLoading, listeners >>
       ELSE /\ searchFetches' = RemoveAt(searchFetches, i)
            /\ Commit(AfterResponse(ok, St))
            /\ listeners' = RenderKeys(listeners, Mounted(selectedId, isOpen), Mounted(selectedId, isOpen))
    /\ ev' = NoEvent
    /\ UNCHANGED << appVars, detailVars, focused, documentTitle >>

\* await res.json() resolves with the payload.
SearchJson(i, data) ==
    /\ ~MicrotaskPending
    /\ i \in 1..Len(searchFetches)
    /\ searchFetches[i].phase = "json"
    /\ ~searchFetches[i].aborted
    /\ searchFetches' = RemoveAt(searchFetches, i)
    /\ Commit(AfterJson(data, St))
    /\ listeners' = RenderKeys(listeners, Mounted(selectedId, isOpen), Mounted(selectedId, isOpen))
    /\ ev' = NoEvent
    /\ UNCHANGED << appVars, detailVars, focused, documentTitle >>

\* await fetch(...) or await res.json() rejects: both are inside the try
\* block.
SearchReject(i, err) ==
    /\ ~MicrotaskPending
    /\ i \in 1..Len(searchFetches)
    /\ err \in RejectionsAt(searchFetches[i].phase)
    /\ ~searchFetches[i].aborted
    /\ searchFetches' = RemoveAt(searchFetches, i)
    /\ Commit(Thrown(err, St))
    /\ listeners' = RenderKeys(listeners, Mounted(selectedId, isOpen), Mounted(selectedId, isOpen))
    /\ ev' = NoEvent
    /\ UNCHANGED << appVars, detailVars, focused, documentTitle >>

\* The awaited promise of an aborted fetch rejects with an AbortError.
SearchAborted(i) ==
    /\ i \in 1..Len(searchFetches)
    /\ searchFetches[i].aborted
    /\ searchFetches' = RemoveAt(searchFetches, i)
    /\ Commit(Thrown(AbortError, St))
    /\ listeners' = RenderKeys(listeners, Mounted(selectedId, isOpen), Mounted(selectedId, isOpen))
    /\ ev' = [NoEvent EXCEPT !.op = "SearchAborted"]
    /\ UNCHANGED << appVars, detailVars, focused, documentTitle >>

\* A click on a movie of the list, which is rendered when !isLoading && !error
\* (the Box around the list is left open).
SelectMovie(id) ==
    /\ ~MicrotaskPending
    /\ ~isLoading
    /\ error = ""
    /\ \E i \in 1..Len(movies) : movies[i].imdbID = id
    /\ Mounted(HandleSelectMovie(id, selectedId), isOpen)
          => InFlight(detailFetches) < MaxDetailInFlight
    /\ SetSelectedId(selectedId, HandleSelectMovie(id, selectedId))
    /\ listeners' = RenderKeys(listeners, Mounted(selectedId, isOpen), Mounted(selectedId', isOpen))
    /\ focused' = FALSE
    /\ ev' = NoEvent
    /\ UNCHANGED << query, isOpen, watched, store, searchVars >>

\* A click on the back button of the detail view.
CloseMovie ==
    /\ ~MicrotaskPending
    /\ DetailsShown
    /\ SetSelectedId(selectedId, HandleCloseMovie)
    /\ listeners' = RenderKeys(listeners, Mounted(selectedId, isOpen), Mounted(selectedId', isOpen))
    /\ focused' = FALSE
    /\ ev' = NoEvent
    /\ UNCHANGED << query, isOpen, watched, store, searchVars >>

\* A click on the toggle button of the Box around MovieDetails.
ToggleBox ==
    /\ ~MicrotaskPending
    /\ Mounted(selectedId, BoxToggle(isOpen)) => InFlight(detailFetches) < MaxDetailInFlight
    /\ isOpen' = BoxToggle(isOpen)
    /\ RenderDetails(selectedId, selectedId, isOpen, BoxToggle(isOpen))
    /\ listeners' = DetailsKeys(listeners, Mounted(selectedId, isOpen),
                                Mounted(selectedId, BoxToggle(isOpen)))
    /\ focused' = FALSE
    /\ ev' = NoEvent
    /\ UNCHANGED << query, selectedId, watched, store, searchVars >>

\* A keydown event on document: every registered callback of useKey runs.
\* Escape calls handleCloseMovie; Enter calls Search.handleEnter, which
\* focuses the input and empties the query unless the input has the focus.
\* ev keeps the keydowns for which one of the two did something.
KeyDown(code) ==
    /\ ~MicrotaskPending
    /\ LET closes == Calls(listeners, DetailsEscape, code) > 0
           enters == Calls(listeners, SearchEnter, code) > 0 /\ HandleEnterActs(focused)
       IN /\ focused' = (focused \/ enters)
          /\ IF enters /\ query # ""
             THEN SetQuery("")
             ELSE /\ SetSelectedId(selectedId, IF closes THEN HandleCloseMovie ELSE selectedId)
                  /\ listeners' = IF closes THEN RenderKeys(listeners, Mounted(selectedId, isOpen), Mounted(selectedId', isOpen))
                                  ELSE listeners
                  /\ UNCHANGED << query, searchVars >>
    /\ ev' = IF \/ Calls(listeners, DetailsEscape, code) > 0
                \/ Calls(listeners, SearchEnter, code) > 0 /\ HandleEnterActs(focused)
             THEN [NoEvent EXCEPT !.op = "KeyDown", !.q = code, !.sel = selectedId # NULL]
             ELSE NoEvent
    /\ UNCHANGED << isOpen, watched, store >>

\* StarRating's onSetRating, rendered while the movie has no rating yet.
Rate(r) ==
    /\ ~MicrotaskPending
    /\ DetailsShown
    /\ WatchedUserRating(watched, selectedId) = 0
    /\ userRating' = r
    /\ focused' = FALSE
    /\ ev' = NoEvent
    /\ UNCHANGED << appVars, searchVars, movie, dIsLoading, dError, detailFetches,
                    listeners, documentTitle >>

\* The "+ Add to list" button: handleAdd.
Add ==
    /\ ~MicrotaskPending
    /\ DetailsShown
    /\ WatchedUserRating(watched, selectedId) = 0
    /\ userRating > 0
    /\ Len(watched) < MaxWatched
    /\ IF ~movie.present
       THEN \* runtime is undefined: runtime.split throws before anything is set
            UNCHANGED << selectedId, watched, store, detailVars, listeners, documentTitle >>
       ELSE /\ watched' = HandleAddWatched(watched, NewWatchedMovie(selectedId, movie, userRating))
            /\ store' = JSONStringify(watched')
            /\ SetSelectedId(selectedId, HandleCloseMovie)
            /\ listeners' = RenderKeys(listeners, Mounted(selectedId, isOpen), Mounted(selectedId', isOpen))
    /\ focused' = FALSE
    /\ ev' = IF movie.present THEN [NoEvent EXCEPT !.op = "Add"] ELSE NoEvent
    /\ UNCHANGED << query, isOpen, searchVars >>

\* The delete button of an entry of WatchedMovieList.
Delete(id) ==
    /\ ~MicrotaskPending
    /\ selectedId = NULL
    /\ isOpen
    /\ \E i \in 1..Len(watched) : watched[i].imdbID = id
    /\ watched' = HandleDeleteWatched(watched, id)
    /\ store' = JSONStringify(watched')
    /\ listeners' = RenderKeys(listeners, Mounted(selectedId, isOpen), Mounted(selectedId, isOpen))
    /\ focused' = FALSE
    /\ ev' = [NoEvent EXCEPT !.op = "Delete", !.q = id]
    /\ UNCHANGED << query, selectedId, isOpen, searchVars, detailVars, documentTitle >>

\* The writes of a continuation of getMovieDetails; a new title runs the
\* title effect again.
DCommit(k, r) ==
    IF k.orphan
    THEN UNCHANGED << movie, dIsLoading, dError, documentTitle >>
    ELSE /\ movie' = r.movie
         /\ dError' = r.error
         /\ dIsLoading' = r.isLoading
         /\ documentTitle' = TitleRerun(movie.Title, r.movie.Title, documentTitle)

DSt == [movie |-> movie, error |-> dError]

\* await fetch(...) of getMovieDetails resolves with a response: a response
\* that is not OK is thrown on, otherwise the call goes on to await
\* res.json() and nothing is written.
DetailRespond(k, ok) ==
    /\ ~MicrotaskPending
    /\ detailFetches[k] > 0
    /\ k.phase = "fetch"
    /\ IF ok
       THEN /\ detailFetches' = Issue(Settle(detailFetches, k), [k EXCEPT !.phase = "json"])
            /\ UNCHANGED << movie, dIsLoading, dError, documentTitle >>
       ELSE /\ detailFetches' = Settle(detailFetches, k)
            /\ DCommit(k, DAfterResponse(ok, DSt))
    /\ ev' = NoEvent
    /\ UNCHANGED << appVars, searchVars, userRating, focused, listeners >>

\* await res.json() resolves with the payload.
DetailJson(k, data) ==
    /\ ~MicrotaskPending
    /\ detailFetches[k] > 0
    /\ k.phase = "json"
    /\ data \in (IF k.orphan THEN AllDetailPayloads ELSE DetailPayloads(k.id))
    /\ detailFetches' = Settle(detailFetches, k)
    /\ DCommit(k, DAfterJson(data, DSt))
    /\ ev' = NoEvent
    /\ UNCHANGED << appVars, searchVars, userRating, focused, listeners >>

\* await fetch(...) or await res.json() of getMovieDetails rejects.
DetailReject(k, err) ==
    /\ ~MicrotaskPending
    /\ detailFetches[k] > 0
    /\ err \in RejectionsAt(k.phase)
    /\ detailFetches' = Settle(detailFetches, k)
    /\ DCommit(k, DThrown(err, DSt))
    /\ ev' = NoEvent
    /\ UNCHANGED << appVars, searchVars, userRating, focused, listeners >>

\* The page is loaded again: every component is constructed anew, the watched
\* collection is read from the durable store, pending fetches are gone.
Restart ==
    /\ ~MicrotaskPending
    /\ query' = ""
    /\ selectedId' = NULL
    /\ isOpen' = TRUE
    /\ watched' = JSONParse(store)
    /\ store' = JSONStringify(watched')
    /\ movies' = << >>
    /\ isLoading' = FALSE
    /\ error' = ""
    /\ searchFetches' = << >>
    /\ movie' = EmptyMovie
    /\ dIsLoading' = FALSE
    /\ dError' = ""
    /\ userRating' = 0
    /\ detailFetches' = [k \in DetailFetchKinds |-> 0]
    /\ focused' = FALSE
    /\ listeners' = InitialListeners
    /\ documentTitle' = InitialTitle
    /\ ev' = [NoEvent EXCEPT !.op = "Restart"]

Next ==
    \/ FocusInput
    \/ \E q \in Queries : QueryChange(q)
    \/ \E i \in 1..Len(searchFetches), ok \in BOOLEAN : SearchRespond(i, ok)
    \/ \E i \in 1..Len(searchFetches), data \in SearchPayloads : SearchJson(i, data)
    \/ \E i \in 1..Len(searchFetches), err \in Rejections : SearchReject(i, err)
    \/ \E i \in 1..Len(searchFetches) : SearchAborted(i)
    \/ \E id \in Ids : SelectMovie(id)
    \/ CloseMovie
    \/ ToggleBox
    \/ \E code \in Codes : KeyDown(code)
    \/ \E r \in Ratings : Rate(r)
    \/ Add
    \/ \E id \in Ids : Delete(id)
    \/ \E k \in DetailFetchKinds, ok \in BOOLEAN : DetailRespond(k, ok)
    \/ \E k \in DetailFetchKinds, data \in AllDetailPayloads : DetailJson(k, data)
    \/ \E k \in DetailFetchKinds, err \in Rejections : DetailReject(k, err)
    \/ Restart

Spec == Init /\ [][Next]_vars

TypeOK ==
    /\ Len(searchFetches) <= 2
    /\ InFlight(detailFetches) <= MaxDetailInFlight
    /\ Len(watched) <= MaxWatched

\* ------------------------------------------------------------------ claims

Live(fs) == {i \in 1..Len(fs) : ~fs[i].aborted}

\* C1: a query change to a query of fewer than 3 characters issues no search
\* fetch and leaves the movie list empty and the error "", whatever queries
\* and fetch outcomes came before; and while the query is that short the list
\* stays empty and no search fetch is alive.
C1_ShortQueryStep ==
    (ev'.op = "QueryChange" /\ Len(query') < 3)
        => /\ movies' = << >>
           /\ error' = ""
           /\ Len(searchFetches') = Len(searchFetches)
           /\ Live(searchFetches') = {}

C1_ShortQueryNoFetch ==
    /\ [](Len(query) < 3 => movies = << >> /\ error = "" /\ Live(searchFetches) = {})
    /\ [][C1_ShortQueryStep]_vars

C1_Witness ==
    /\ ev.op = "QueryChange"
    /\ Len(query) = 2
    /\ MicrotaskPending

\* C2: the continuation of a cancelled search fetch changes neither the movie
\* list nor the error; the list and the error are changed only by a query
\* change or by the outcome of the fetch issued for the current query.
C2_Step ==
    /\ ev'.op = "SearchAborted" => movies' = movies /\ error' = error
    /\ (movies' # movies \/ error' # error)
          => \/ query' # query
             \/ ev'.op = "Restart"
             \/ \E i \in Live(searchFetches) :
                    /\ searchFetches[i].q = query
                    /\ query' = query
                    /\ searchFetches' = RemoveAt(searchFetches, i)

C2_CancelledNeverUpdates == [][C2_Step]_vars

C2_Witness ==
    /\ ev.op = "SearchAborted"
    /\ Live(searchFetches) # {}
    /\ movies # << >>

\* C3: while the fetch for the newest query is in flight isLoading is true;
\* the continuation of a superseded fetch does not clear it.
C3_LoadingUntilNewestSettles == Live(searchFetches) # {} => isLoading

\* C4: the detail shown for the selected identifier is the record fetched for
\* that identifier, never the answer to a fetch for an earlier selection.
C4_DetailOfSelection ==
    (DetailsShown /\ movie.present) => movie.imdbID = selectedId

\* C5: a response that is not OK ends in the error "Something went wrong while
\* fetching movies"; a payload whose Response is "False" ends in the error
\* "Movie not found"; any other payload ends with movies equal to its Search
\* list and the error "".
C5_Step ==
    \A i \in 1..Len(searchFetches) :
        /\ SearchRespond(i, FALSE)
              => error' = "Something went wrong while fetching movies" /\ ~isLoading'
        /\ \A data \in SearchPayloads :
              /\ (SearchJson(i, data) /\ data.Response = "False")
                    => error' = "Movie not found" /\ ~isLoading'
              /\ (SearchJson(i, data) /\ data.Response # "False")
                    => movies' = data.Search /\ error' = "" /\ ~isLoading'

C5_ResponseOutcome == [][C5_Step]_vars

\* The fetch for the query was answered with a list.
C5_Witness ==
    /\ Len(query) >= 3
    /\ searchFetches = << >>
    /\ movies = << Summary("tt1"), Summary("tt2") >>
    /\ error = ""
    /\ ~isLoading

\* C6: the watched collection never holds two entries with the same imdbID.
C6_UniqueImdbID ==
    \A i, j \in 1..Len(watched) : watched[i].imdbID = watched[j].imdbID => i = j

\* A movie that is already watched is open, with a rating left over from the
\* movie that was open before it.
C6_Witness ==
    /\ DetailsShown
    /\ userRating > 0
    /\ \E i \in 1..Len(watched) : watched[i].imdbID = selectedId

\* ------------------------------------------- deletes on a stored collection
\* The identifiers, ratings and entries of a collection that was stored by
\* earlier adds: one entry per imdbID, in the order of the adds.
StoredIds == {"tt" \o DigitChars[i + 1] : i \in 1..MaxStored}
StoredRatings == {1, MaxRating \div 2, MaxRating}
StoredEntries ==
    {NewWatchedMovie(id, DetailPayload(id), r) : id \in StoredIds, r \in StoredRatings}
StoredLists ==
    {w \in [1..MaxStored -> StoredEntries] :
        \A i, j \in 1..MaxStored : w[i].imdbID = w[j].imdbID => i = j}

\* The page is loaded with a stored collection of MaxStored entries.
DeleteInit ==
    /\ watched \in StoredLists
    /\ store = JSONStringify(watched)
    /\ query = ""
    /\ selectedId = NULL
    /\ isOpen = TRUE
    /\ movies = << >>
    /\ isLoading = FALSE
    /\ error = ""
    /\ searchFetches = << >>
    /\ movie = EmptyMovie
    /\ dIsLoading = FALSE
    /\ dError = ""
    /\ userRating = 0
    /\ detailFetches = [k \in DetailFetchKinds |-> 0]
    /\ focused = FALSE
    /\ listeners = InitialListeners
    /\ documentTitle = InitialTitle
    /\ ev = [NoEvent EXCEPT !.op = "Mount"]

\* The user deletes entries of the list, one click after the other.
DeleteNext == \E id \in StoredIds : Delete(id)

DeleteSpec == DeleteInit /\ [][DeleteNext]_vars

\* C7: a delete removes exactly the entry with the identifier and keeps the
\* others as they are and in their order; deleting an identifier that is not
\* in the collection gives the collection back.
C7_DeleteStep ==
    ev'.op = "Delete"
        => \E i \in 1..Len(watched) :
               /\ watched[i].imdbID = ev'.q
               /\ watched' = RemoveAt(watched, i)

C7_DeleteExactlyOne ==
    /\ [](\A id \in StoredIds :
            (\A i \in 1..Len(watched) : watched[i].imdbID # id)
                => HandleDeleteWatched(watched, id) = watched)
    /\ [][C7_DeleteStep]_vars

\* An entry was deleted from a collection of three: two entries are left, in
\* the order they had, which is not the order of their identifiers.
C7_Witness ==
    /\ ev.op = "Delete"
    /\ ev.q = "tt2"
    /\ Len(watched) = 2
    /\ watched[1].imdbID = "tt3"
    /\ watched[2].imdbID = "tt1"

\* The entries handleAdd can build.
AddableEntries ==
    {NewWatchedMovie(id, DetailPayload(of), r) : id \in Ids, of \in Ids, r \in Ratings}

\* C8: an add appends the movie as the last entry and keeps every entry that
\* was there, so the length grows by one; handleAddWatched does so also for a
\* movie whose imdbID is already in the collection.
C8_AddStep ==
    ev'.op = "Add"
        => /\ Len(watched') = Len(watched) + 1
           /\ SubSeq(watched', 1, Len(watched)) = watched
           /\ watched'[Len(watched')] = NewWatchedMovie(selectedId, movie, userRating)

C8_AddAppends ==
    /\ [](\A m \in AddableEntries :
            LET r == HandleAddWatched(watched, m) IN
                /\ Len(r) = Len(watched) + 1
                /\ SubSeq(r, 1, Len(watched)) = watched
                /\ r[Len(r)] = m)
    /\ [][C8_AddStep]_vars

C8_Witness ==
    /\ ev.op = "Add"
    /\ Len(watched) = 2

C10_QueryChangeCloses == [][query' # query => selectedId' = NULL]_vars

\* A change to a short query found a detail view open and closed it.
C10_Witness ==
    /\ ev.op = "QueryChange"
    /\ Len(query) < 3
    /\ ev.sel
    /\ selectedId = NULL

\* C11: every useKey call has exactly one keydown listener registered while
\* its component is mounted (Search always, MovieDetails while a movie is
\* selected and its Box is open) and none after the unmount, through every
\* re-run of the effect; so one keydown calls the bound action at most once.
C11_OneListenerWhileMounted ==
    /\ listeners[SearchEnter] = 1
    /\ listeners[DetailsEscape] = (IF Mounted(selectedId, isOpen) THEN 1 ELSE 0)
    /\ \A code \in Codes, l \in KeyListeners : Calls(listeners, l, code) <= 1

\* Escape was pressed in a detail view: the action ran once, MovieDetails is
\* unmounted and its listener is gone.
C11_Witness ==
    /\ ev.op = "KeyDown"
    /\ ev.q = "Escape"
    /\ ev.sel
    /\ selectedId = NULL
    /\ listeners[DetailsEscape] = 0

\* ---------------------------------------------------------------- fairness
\* The continuation of a search fetch in flight: its response, its payload,
\* its network failure or its cancellation.
SearchSettles ==
    \/ \E i \in 1..Len(searchFetches), ok \in BOOLEAN : SearchRespond(i, ok)
    \/ \E i \in 1..Len(searchFetches), data \in SearchPayloads : SearchJson(i, data)
    \/ \E i \in 1..Len(searchFetches), err \in Rejections : SearchReject(i, err)
    \/ \E i \in 1..Len(searchFetches) : SearchAborted(i)

\* Every issued search fetch eventually resolves, rejects or is cancelled:
\* the event loop runs a continuation that is ready.
FairSpec == Init /\ [][Next]_vars /\ WF_vars(SearchSettles)

\* C12: if every issued search fetch eventually settles and the query
\* eventually stops changing, then from some point on isLoading is false and
\* no search fetch is in flight.
C12_LoadingSettles ==
    <>[][query' = query]_vars => <>[](~isLoading /\ searchFetches = << >>)

\* The last fetch has settled with the loading flag down after a superseded
\* fetch was cancelled.
C12_Witness ==
    /\ query = "xxxx"
    /\ ~isLoading
    /\ searchFetches = << >>
    /\ (movies # << >> \/ error # "")

\* C13: while MovieDetails holds a record with a title the document title is
\* "Movie | <title>"; when no detail view is open (no movie selected, or the
\* Box closed), and while the open view has no record yet, it is
\* "usePopcorn"; so a detail response that arrives after the view was closed
\* does not change it.
C13_TitleFollowsDetail ==
    /\ (Mounted(selectedId, isOpen) /\ movie.Title # "")
          => documentTitle = "Movie | " \o movie.Title
    /\ (Mounted(selectedId, isOpen) /\ movie.Title = "") => documentTitle = "usePopcorn"
    /\ ~Mounted(selectedId, isOpen) => documentTitle = "usePopcorn"

\* A movie was loaded, titled and added, which closed the view and restored
\* the title, while a detail fetch made by the closed view is still to answer.
C13_Witness ==
    /\ ev.op = "Add"
    /\ selectedId = NULL
    /\ documentTitle = "usePopcorn"
    /\ detailFetches[[id |-> "", orphan |-> TRUE, phase |-> "json"]] = 1

\* C14: right after a query change the search error is "", for a short query
\* and for one that starts a fetch; right after a new selection starts the
\* detail loader the detail error is ""; and a fetch is issued only for a
\* query change, a selection change or the opening of the Box around the
\* detail view, never as a retry of a failed one.
C14_Step ==
    LET issued == detailFetches' # detailFetches
                    /\ InFlight(detailFetches') = InFlight(detailFetches) + 1
    IN  /\ query' # query => error' = ""
        /\ (selectedId' # NULL /\ selectedId' # selectedId /\ isOpen) => issued
        /\ issued => dError' = "" /\ dIsLoading'
        /\ Len(searchFetches') > Len(searchFetches) => query' # query
        /\ issued => selectedId' # selectedId \/ (isOpen' /\ ~isOpen)

C14_ErrorsCleared == [][C14_Step]_vars

\* A query change found an error shown, cleared it and started a fetch.
C14_Witness ==
    /\ ev.op = "QueryChange"
    /\ ev.err
    /\ error = ""
    /\ isLoading
    /\ Live(searchFetches) # {}

\* C15: the average of the empty list is 0; so while the watched collection
\* is empty the three averages of WatchedSummary are 0 and the count is 0.
C15_EmptyAveragesZero ==
    /\ Average(<< >>) = Zero
    /\ watched = << >> =>
          /\ AvgImdbRating(watched) = Zero
          /\ AvgUserRating(watched) = Zero
          /\ AvgRuntime(watched) = Zero
          /\ Len(watched) = 0

\* The last entry was deleted: the summary is shown for an empty collection.
C15_Witness ==
    /\ ev.op = "Delete"
    /\ watched = << >>
    /\ selectedId = NULL

\* C16: every change of selectedId to a non-null identifier starts from
\* null: selecting a movie while another movie's detail view is open clears
\* the identifier first, so selectedId never goes from one identifier
\* directly to another.
C16_SelectStartsFromNull ==
    [][(selectedId' # NULL /\ selectedId' # selectedId) => selectedId = NULL]_vars

\* C17: every search fetch issued for an earlier query is cancelled when the
\* query changes, to a short query too, and when the page goes away: a fetch
\* that is not cancelled is the fetch for the current query, and there is at
\* most one.
C17_SupersededCancelled ==
    /\ \A i \in Live(searchFetches) : searchFetches[i].q = query
    /\ Cardinality(Live(searchFetches)) <= 1

\* A query change cancelled the fetch in flight and issued a new one.
C17_Witness ==
    /\ ev.op = "QueryChange"
    /\ MicrotaskPending
    /\ Cardinality(Live(searchFetches)) = 1

\* C18: every watched entry carries the title, year, poster, runtime and
\* imdbRating of the detail record of the imdbID it is stored under.
C18_EntryOfOwnRecord ==
    \A i \in 1..Len(watched) :
        watched[i] = NewWatchedMovie(watched[i].imdbID, DetailPayload(watched[i].imdbID),
                                     watched[i].userRating)

\* C19: a search attempt that ends in an error leaves the movie list as it
\* was; the list changes only to the Search list of a successful payload, to
\* the empty list on a change to a short query, or on a restart.
C19_Step ==
    /\ (SearchSettles /\ error' # "") => movies' = movies
    /\ movies' # movies
          => \/ \E i \in 1..Len(searchFetches), data \in SearchPayloads :
                    /\ SearchJson(i, data)
                    /\ data.Response # "False"
                    /\ movies' = data.Search
             \/ query' # query /\ ShortQuery(query') /\ movies' = << >>
             \/ ev'.op = "Restart"

C19_ErrorKeepsMovies == [][C19_Step]_vars

\* A fetch failed while the list of an earlier search was held.
C19_Witness ==
    /\ error \in {SearchTransportMsg, NotFoundMsg}
    /\ ~isLoading
    /\ Len(movies) = 2

\* C20: isLoading is never true while the error is non-empty.
C20_NoLoadingWithError == ~(isLoading /\ error # "")

\* A fetch was rejected: the error is shown and the loading flag is down.
C20_Witness ==
    /\ error = TypeError.message
    /\ ~isLoading
    /\ searchFetches = << >>

\* The useKey calls whose listener is registered and whose key is this code.
Bound(ls, code) == {l \in KeyListeners : ls[l] > 0 /\ l.key = code}

\* C21, as stated: a keydown calls the action of a useKey call if and only if
\* its code is the call's key; while a detail view is open an Escape keydown
\* sets selectedId to null, and a keydown of any other key leaves selectedId
\* as it is.
C21_OtherKeysKeepSelection ==
    [][\A code \in Codes :
          KeyDown(code) =>
              /\ Calls(listeners, DetailsEscape, code) + Calls(listeners, SearchEnter, code)
                    = Cardinality(Bound(listeners, code))
              /\ (code = "Escape" /\ Mounted(selectedId, isOpen)) => selectedId' = NULL
              /\ code # "Escape" => selectedId' = selectedId]_vars

\* C21, amended: a keydown calls the action of a useKey call if and only if
\* its code is the call's key; while a detail view is open an Escape keydown
\* sets selectedId to null; a keydown of another key leaves selectedId as it
\* is, except Enter pressed while the search input is not focused and the
\* query is not empty: handleEnter empties the query, and the query change
\* closes the detail view.
C21_Step ==
    \A code \in Codes :
        KeyDown(code) =>
            /\ Calls(listeners, DetailsEscape, code) + Calls(listeners, SearchEnter, code)
                  = Cardinality(Bound(listeners, code))
            /\ (code = "Escape" /\ Mounted(selectedId, isOpen)) => selectedId' = NULL
            /\ code # "Escape" =>
                  \/ selectedId' = selectedId
                  \/ /\ code = "Enter"
                     /\ ~focused
                     /\ query # ""
                     /\ query' = ""
                     /\ focused'
                     /\ selectedId' = NULL

C21_KeyInvokesOwnAction == [][C21_Step]_vars

\* Enter was pressed with a detail view open and the input not focused: the
\* query is empty, the input has the focus and the view is closed.
C21_Witness ==
    /\ ev.op = "KeyDown"
    /\ ev.q = "Enter"
    /\ ev.sel
    /\ selectedId = NULL
    /\ query = ""
    /\ focused
====
